---- MODULE Spec2Model ----
(***************************************************************************)
(* A model of the semantic matching engine of the ai-service:              *)
(*   services/vector_store.py   VectorStore (add, add_batch, search, get,  *)
(*                              delete, save, load, size, clear)           *)
(*   api/similarity.py          semantic_search (search + metadata filter) *)
(*   models/credit_assessor.py  CreditAssessor (assess and its checks)     *)
(*   models/pathway_recommender.py  PathwayRecommender (train, recommend)  *)
(*   utils/preprocessing.py     clean_text                                 *)
(*   services/embeddings.py     EmbeddingService (encode and its fallback) *)
(*   services/vector_store.py   get_vector_store, with the index endpoint  *)
(*                              of api/similarity.py and the train         *)
(*                              endpoint of api/recommendations.py         *)
(*                                                                         *)
(* Conventions.                                                            *)
(*  - An optional Python value is a sequence of length 0 (None) or 1.      *)
(*  - A numpy vector is a sequence of integers; the 2-D array self.vectors *)
(*    is the sequence of its rows.  Zero-norm vectors are not drawn as     *)
(*    inputs (their cosine is NaN).                                        *)
(*  - Positions are 0-based as in the code: row idx of self.vectors is     *)
(*    vectors[idx + 1].                                                    *)
(*  - A cosine similarity c is carried exactly as the rational             *)
(*    sign(c) * c^2 = <<num, den>>, den > 0; the map c |-> sign(c) * c^2   *)
(*    is strictly increasing, so every comparison of similarities (with    *)
(*    each other or with a threshold) is decided exactly.                  *)
(*  - dtype is the element type of self.vectors.  Arithmetic on a float64  *)
(*    array is taken as exact.  On a float32 array the division of a row   *)
(*    by its norm is rounded to float32 unless the norm is 1, and a        *)
(*    similarity with such a row that is not 0 carries the rounding error, *)
(*    in either direction.                                                 *)
(*  - numpy's argsort (default kind) and argpartition leave the order of   *)
(*    equal keys unspecified: every order they may produce is an outcome.  *)
(***************************************************************************)
EXTENDS Integers, Sequences, FiniteSets, TLC

VARIABLES dimension, vectors, dtype, metadata, id_to_index, disk, pre, last, scn, writer,
          process

vars == <<dimension, vectors, dtype, metadata, id_to_index, disk, pre, last, scn, writer,
          process>>

(***************************************************************************)
(* Bounds of the model.                                                    *)
(***************************************************************************)
\* the dimension the store is constructed with
D == 2
\* cap on the number of stored records
MaxSize == 2
\* cap on the number of characters of a text handed to clean_text
MaxTextLen == 6
\* cap on the number of records of one batch scenario (SpecBatch)
MaxBatch == MaxSize + 1
\* largest top_k drawn for a search: one more than any store holds
MaxTopK == MaxSize + 1

None == << >>
Some(x) == <<x>>

Range(f) == {f[x] : x \in DOMAIN f}
Min(a, b) == IF a <= b THEN a ELSE b
EmptyMap == [x \in {} |-> 0]

(***************************************************************************)
(* Inputs.                                                                 *)
(***************************************************************************)
UnitVec(i) == [j \in 1..D |-> IF j = i THEN 1 ELSE 0]
OnesVec == [j \in 1..D |-> 1]
\* a vector of D + 1 components: its length differs from D
LongVec == [j \in 1..(D + 1) |-> 1]
\* a one-component vector: numpy broadcasts it over a row it is assigned to
ShortVec == <<1>>
GoodVectors == {UnitVec(1), UnitVec(2)}
VectorInputs == GoodVectors \cup {LongVec}
QueryInputs == {UnitVec(1), OnesVec, LongVec}
MetaA == [institution_id |-> "A"]
MetaB == [institution_id |-> "B"]
MetadataInputs == {MetaA, MetaB}
\* the id a caller passes to add, and the ids it passes to a batch insert
CallerIds == {"a"}
BatchIds == {"a", "b", "c"}
IdInputs == {None} \cup {Some(i) : i \in CallerIds}
\* thresholds 0 and 3/4, as rationals <<numerator, denominator>>
ThresholdInputs == {None, Some(<<0, 1>>), Some(<<3, 4>>)}
TopKInputs == 0..MaxTopK
\* the filters of a semantic search: none, or an equality on institution_id
FilterInputs == {None, Some([institution_id |-> "A"]), Some([institution_id |-> "B"])}
\* a file saved by a store constructed with another dimension, holding one record
ForeignFiles ==
    {[dimension |-> D + 1, vectors |-> <<LongVec>>,
      metadata |-> <<[institution_id |-> "A"]>>, id_to_index |-> ("a" :> 0)]}
\* files whose vector list, metadata list and id mapping differ in cardinality
CorruptFiles ==
    {[dimension |-> D, vectors |-> <<UnitVec(1)>>,
      metadata |-> <<MetaA, MetaB>>, id_to_index |-> ("a" :> 0)],
     [dimension |-> D, vectors |-> <<UnitVec(1), UnitVec(2)>>,
      metadata |-> <<MetaA, MetaB>>, id_to_index |-> ("a" :> 0)]}

(***************************************************************************)
(* The store as a value: the four fields of a VectorStore, and the element *)
(* type of its array.  An array numpy makes from a list (np.array([]),     *)
(* np.array(data['vectors'])) is float64.                                  *)
(***************************************************************************)
Store(d, v, m, i) ==
    [dimension |-> d, vectors |-> v, dtype |-> "float64", metadata |-> m, id_to_index |-> i]
Self == [Store(dimension, vectors, metadata, id_to_index) EXCEPT !.dtype = dtype]

\* VectorStore.__init__ without an existing file: an empty array of shape (0, dimension)
NewStore(d) == Store(d, << >>, << >>, EmptyMap)

\* VectorStore.size
size(s) == Len(s.metadata)

\* f"vec_{n}"
GenId(n) == "vec_" \o ToString(n)

\* the outcome of a call: the store afterwards, the returned value, the exception raised
Outcome(s, ret, exc) == [s |-> s, ret |-> ret, exc |-> exc]

\* self.vectors[idx] = vector: numpy assigns a vector of the row's length, broadcasts a
\* one-component vector over the row, and raises ValueError otherwise
RowAssignable(row, vector) == Len(vector) = Len(row) \/ Len(vector) = 1
RowAssign(row, vector) ==
    IF Len(vector) = Len(row) THEN vector ELSE [j \in 1..Len(row) |-> vector[1]]

\* VectorStore.add of a float64 vector: an update keeps the array's element type, the
\* first row gives the array its own, and np.vstack promotes to float64
add(s, vector, meta, vector_id) ==
    LET vid == IF vector_id = None THEN GenId(Len(s.metadata)) ELSE vector_id[1]
    IN  IF vid \in DOMAIN s.id_to_index
        THEN LET idx == s.id_to_index[vid]
             IN  IF RowAssignable(s.vectors[idx + 1], vector)
                 THEN Outcome([s EXCEPT !.vectors[idx + 1] = RowAssign(@, vector),
                                        !.metadata[idx + 1] = meta],
                              vid, "none")
                 ELSE Outcome(s, vid, "ValueError")
        ELSE IF Len(s.vectors) = 0
             THEN Outcome([s EXCEPT !.vectors = <<vector>>,
                                    !.dtype = "float64",
                                    !.metadata = Append(s.metadata, meta),
                                    !.id_to_index = (vid :> Len(s.metadata)) @@ @],
                          vid, "none")
             ELSE IF Len(vector) = Len(s.vectors[1])
                  THEN Outcome([s EXCEPT !.vectors = Append(@, vector),
                                         !.dtype = "float64",
                                         !.metadata = Append(@, meta),
                                         !.id_to_index = (vid :> Len(s.metadata)) @@ @],
                               vid, "none")
                  ELSE Outcome(s, vid, "ValueError")

\* VectorStore.add of a float32 vector (an embedding of the sentence transformer): the
\* first row makes the array float32, np.vstack and the row assignment keep the array's
\* element type
add_float32(s, vector, meta, vector_id) ==
    LET o == add(s, vector, meta, vector_id)
    IN  IF o.exc # "none"
        THEN o
        ELSE [o EXCEPT !.s.dtype = IF Len(s.vectors) = 0 THEN "float32" ELSE s.dtype]

\* a sequence without its element at 0-based position idx (np.delete, del list[idx])
RemoveAt(seq, idx) ==
    [j \in 1..(Len(seq) - 1) |-> IF j <= idx THEN seq[j] ELSE seq[j + 1]]

\* delete without the loop that moves the later positions down by one
delete_noshift(s, vector_id) ==
    IF vector_id \notin DOMAIN s.id_to_index
    THEN Outcome(s, FALSE, "none")
    ELSE LET idx == s.id_to_index[vector_id]
         IN  Outcome([s EXCEPT !.vectors = RemoveAt(@, idx),
                               !.metadata = RemoveAt(@, idx),
                               !.id_to_index = [vid \in DOMAIN @ \ {vector_id} |-> @[vid]]],
                     TRUE, "none")

\* delete that drops the last metadata entry (metadata.pop()) instead of entry idx
delete_pop_metadata(s, vector_id) ==
    IF vector_id \notin DOMAIN s.id_to_index
    THEN Outcome(s, FALSE, "none")
    ELSE LET idx == s.id_to_index[vector_id]
         IN  Outcome([s EXCEPT !.vectors = RemoveAt(@, idx),
                               !.metadata = RemoveAt(@, Len(@) - 1),
                               !.id_to_index =
                                   [vid \in DOMAIN @ \ {vector_id} |->
                                       IF @[vid] > idx THEN @[vid] - 1 ELSE @[vid]]],
                     TRUE, "none")

\* VectorStore.delete
delete(s, vector_id) ==
    IF vector_id \notin DOMAIN s.id_to_index
    THEN Outcome(s, FALSE, "none")
    ELSE LET idx == s.id_to_index[vector_id]
         IN  Outcome([s EXCEPT !.vectors = RemoveAt(@, idx),
                               !.metadata = RemoveAt(@, idx),
                               !.id_to_index =
                                   [vid \in DOMAIN @ \ {vector_id} |->
                                       IF @[vid] > idx THEN @[vid] - 1 ELSE @[vid]]],
                     TRUE, "none")

\* VectorStore.get
get(s, vector_id) ==
    IF vector_id \notin DOMAIN s.id_to_index
    THEN None
    ELSE LET idx == s.id_to_index[vector_id]
         IN  <<s.vectors[idx + 1], s.metadata[idx + 1]>>

\* VectorStore.clear
clear(s) == Outcome([s EXCEPT !.vectors = << >>, !.dtype = "float64", !.metadata = << >>,
                              !.id_to_index = EmptyMap],
                    None, "none")

\* VectorStore.add_batch: the ids are generated up front when none are given, zip stops
\* at the shortest of the three lists, and an exception of add leaves the records added
\* so far in the store
RECURSIVE add_loop(_, _, _, _, _, _)
add_loop(s, vs, ms, ids, k, acc) ==
    IF k > Len(vs) \/ k > Len(ms) \/ k > Len(ids)
    THEN Outcome(s, acc, "none")
    ELSE LET o == add(s, vs[k], ms[k], Some(ids[k]))
         IN  IF o.exc # "none"
             THEN Outcome(o.s, None, o.exc)
             ELSE add_loop(o.s, vs, ms, ids, k + 1, Append(acc, o.ret))

add_batch(s, vs, metadata_list, vector_ids) ==
    LET ids == IF vector_ids = None
               THEN [i \in 1..Len(vs) |-> GenId(Len(s.metadata) + i - 1)]
               ELSE vector_ids[1]
    IN  add_loop(s, vs, metadata_list, ids, 1, << >>)

(***************************************************************************)
(* Cosine similarity, exactly.                                             *)
(***************************************************************************)
RECURSIVE DotUpTo(_, _, _)
DotUpTo(u, v, n) == IF n = 0 THEN 0 ELSE DotUpTo(u, v, n - 1) + u[n] * v[n]
Dot(u, v) == DotUpTo(u, v, Len(u))
SignedSquare(x) == IF x < 0 THEN 0 - x * x ELSE x * x
\* (v / |v|) . (q / |q|), as sign(c) * c^2
cosine(v, q) == <<SignedSquare(Dot(v, q)), Dot(v, v) * Dot(q, q)>>
\* a threshold t = n/d as sign(t) * t^2
ThresholdKey(t) == <<SignedSquare(t[1]), t[2] * t[2]>>
\* a >= b on such rationals
SimGE(a, b) == a[1] * b[2] >= b[1] * a[2]

\* the relative size of a float32 rounding error in the model: 1 / Float32Grid
Float32Grid == 1000
\* the values the similarity sim with the stored row may take on an array of element
\* type dt
Rounded(sim, row, dt) ==
    IF dt = "float64" \/ Dot(row, row) = 1 \/ sim[1] = 0
    THEN {sim}
    ELSE {<<sim[1] * Float32Grid - 1, sim[2] * Float32Grid>>,
          <<sim[1] * Float32Grid + 1, sim[2] * Float32Grid>>}
\* the similarities of the query with every row, as the array's element type gives them
Similarities(s, query_vector) ==
    LET exact == [i \in 1..Len(s.vectors) |-> cosine(s.vectors[i], query_vector)]
    IN  IF s.dtype = "float64"
        THEN {exact}
        ELSE {sims \in [DOMAIN exact ->
                            UNION {Rounded(exact[i], s.vectors[i], s.dtype) : i \in DOMAIN exact}] :
                 \A i \in DOMAIN exact : sims[i] \in Rounded(exact[i], s.vectors[i], s.dtype)}

\* the mask with the comparison turned round: similarities <= threshold
PassesThreshold_inverted(sim, threshold) ==
    threshold = None \/ SimGE(ThresholdKey(threshold[1]), sim)

\* similarities >= threshold
PassesThreshold(sim, threshold) ==
    threshold = None \/ SimGE(sim, ThresholdKey(threshold[1]))

\* the sets of positions np.argpartition(similarities, -top_k)[-top_k:] may select out of
\* cand: top_k positions none of which is below an unselected one; with top_k = 0 the
\* slice [-0:] is the whole array
TopSelections(cand, sims, top_k) ==
    IF Cardinality(cand) > top_k
    THEN IF top_k = 0
         THEN {cand}
         ELSE {T \in SUBSET cand :
                 /\ Cardinality(T) = top_k
                 /\ \A i \in T, j \in cand \ T : SimGE(sims[i], sims[j])}
    ELSE {cand}

\* the orders argsort(...)[::-1] may give the positions T: descending by similarity
DescendingOrders(T, sims) ==
    {p \in [1..Cardinality(T) -> T] :
        /\ \A i, j \in DOMAIN p : i # j => p[i] # p[j]
        /\ \A i, j \in DOMAIN p : i < j => SimGE(sims[p[i]], sims[p[j]])}

\* the id the dict comprehension {v: k for k, v in id_to_index.items()} gives position idx
index_to_id(s, idx) == CHOOSE id \in DOMAIN s.id_to_index : s.id_to_index[id] = idx

\* the results of a search whose similarities are sims: one list for every selection and
\* every order numpy may produce
Ranked(s, sims, top_k, threshold) ==
    LET cand == {i \in 1..Len(sims) : PassesThreshold(sims[i], threshold)}
    IN  UNION { { IF \E k \in DOMAIN p : \A id \in DOMAIN s.id_to_index :
                                            s.id_to_index[id] # p[k] - 1
                  THEN Outcome(s, None, "KeyError")
                  ELSE Outcome(s,
                               [k \in DOMAIN p |->
                                   <<index_to_id(s, p[k] - 1), sims[p[k]], s.metadata[p[k]]>>],
                               "none")
                  : p \in DescendingOrders(T, sims) }
                : T \in TopSelections(cand, sims, top_k) }

\* VectorStore.search: the set of its possible outcomes (the store is not changed)
search(s, query_vector, top_k, threshold) ==
    IF Len(s.vectors) = 0
    THEN {Outcome(s, << >>, "none")}
    ELSE IF Len(query_vector) # Len(s.vectors[1])
    THEN {Outcome(s, None, "ValueError")}
    ELSE UNION { Ranked(s, sims, top_k, threshold) : sims \in Similarities(s, query_vector) }

\* the filter of semantic_search: all(metadata.get(key) == value ...)
MatchesFilters(meta, filters) ==
    \A key \in DOMAIN filters : key \in DOMAIN meta /\ meta[key] = filters[key]

\* semantic_search (api/similarity.py), from the query embedding on: search, then the
\* filter over the returned list; any exception becomes an HTTP 500
semantic_search(s, query_embedding, top_k, threshold, filters) ==
    {IF o.exc # "none"
     THEN Outcome(s, None, "HTTPException")
     ELSE IF filters = None \/ DOMAIN filters[1] = {}
     THEN o
     ELSE Outcome(s, SelectSeq(o.ret, LAMBDA r : MatchesFilters(r[3], filters[1])), "none")
     : o \in search(s, query_embedding, top_k, threshold)}

\* the cells of the store s that the objects a call took or returned share with it, call
\* being the record of the call and s0 the store before it.  get returns the row
\* self.vectors[idx] (a view of the array) and the dict self.metadata[idx]; search returns
\* the dicts self.metadata[actual_idx]; add keeps the caller's dict, and the caller's vector
\* as the array when the store was empty (vector.reshape(1, -1) is a view), while np.vstack
\* and the row assignment copy the values
SharedCells(s0, s, call) ==
    IF call.exc # "none"
    THEN {}
    ELSE CASE call.op = "get" ->
                IF call.ret = None
                THEN {}
                ELSE {<<"vector", s.id_to_index[call.args[1]]>>,
                      <<"metadata", s.id_to_index[call.args[1]]>>}
           [] call.op = "search" ->
                {<<"metadata", s.id_to_index[call.ret[k][1]]>> : k \in DOMAIN call.ret}
           [] call.op = "add" ->
                {<<"metadata", s.id_to_index[call.ret]>>}
                    \cup (IF Len(s0.vectors) = 0
                          THEN {<<"vector", s.id_to_index[call.ret]>>}
                          ELSE {})
           [] OTHER -> {}

\* the store after the caller has written to the object that is the cell: vector[:] = 1,
\* or metadata['institution_id'] = the other institution
WriteCell(s, cell) ==
    IF cell[1] = "vector"
    THEN [s EXCEPT !.vectors[cell[2] + 1] = [j \in DOMAIN @ |-> 1]]
    ELSE [s EXCEPT !.metadata[cell[2] + 1] =
                       [@ EXCEPT !.institution_id = IF @ = "A" THEN "B" ELSE "A"]]

\* VectorStore.save: the JSON document written to store_path; tolist() and json.dump keep
\* every number's value, and the document does not tell the array's element type
save(s) == [dimension |-> s.dimension, vectors |-> s.vectors,
            metadata |-> s.metadata, id_to_index |-> s.id_to_index]

\* VectorStore.load: nothing when the file does not exist, else the four fields are
\* taken from the document as they are, np.array(data['vectors']) being float64
load(s, file) ==
    IF file = None
    THEN Outcome(s, None, "none")
    ELSE Outcome(Store(file[1].dimension, file[1].vectors, file[1].metadata,
                       file[1].id_to_index),
                 None, "none")

(***************************************************************************)
(* The credit assessor (models/credit_assessor.py).  A dict is a function  *)
(* on its keys; a value is Some(x), and None is Python's None.  A text is  *)
(* carried as the set of its tokens (set(tokenize(text))), a number with a *)
(* fraction as the rational <<numerator, denominator>>, denominator > 0.   *)
(***************************************************************************)
\* self.rules
min_duration_hours == 12
min_outcome_overlap == <<3, 5>>
min_content_similarity == <<1, 2>>
required_assessment_methods == {"exam", "project", "assignment"}
level_mapping == [certificate |-> 1, diploma |-> 2, advanced_diploma |-> 3, degree |-> 4]

\* dict.get(key, default)
dict_get(d, key, default) == IF key \in DOMAIN d THEN d[key] ELSE Some(default)

\* str.lower() on the strings of the model
Lower(str) ==
    CASE str = "Degree" -> "degree"
      [] str = "Exam" -> "exam"
      [] str = "Diploma" -> "diploma"
      [] OTHER -> str

RatLE(a, b) == a[1] * b[2] <= b[1] * a[2]
RatEQ(a, b) == a[1] * b[2] = b[1] * a[2]
RatMin(a, b) == IF RatLE(a, b) THEN a ELSE b
RatPlus(a, b) == <<a[1] * b[2] + b[1] * a[2], a[2] * b[2]>>

\* the result of a check; exc is the exception the check raised
Check(met, score) == [met |-> met, score |-> score, exc |-> "none"]
CheckRaised(exc) == [met |-> FALSE, score |-> <<0, 1>>, exc |-> exc]

\* utils/preprocessing.py calculate_text_similarity: Jaccard index of the token sets
calculate_text_similarity(tokens1, tokens2) ==
    IF tokens1 = {} \/ tokens2 = {}
    THEN <<0, 1>>
    ELSE <<Cardinality(tokens1 \cap tokens2), Cardinality(tokens1 \cup tokens2)>>

_check_duration(micro_credential) ==
    LET duration == dict_get(micro_credential, "duration_hours", 0)[1]
    IN  Check(duration >= min_duration_hours,
              RatMin(<<duration, min_duration_hours>>, <<1, 1>>))

_check_outcomes(micro_credential, target_program) ==
    LET mc_outcomes == dict_get(micro_credential, "learning_outcomes", {})[1]
        prog_outcomes == dict_get(target_program, "learning_outcomes", {})[1]
        similarity == calculate_text_similarity(mc_outcomes, prog_outcomes)
    IN  IF mc_outcomes = {} \/ prog_outcomes = {}
        THEN Check(FALSE, <<0, 1>>)
        ELSE Check(RatLE(min_outcome_overlap, similarity), similarity)

_check_content_similarity(micro_credential, target_program) ==
    LET mc_desc == dict_get(micro_credential, "description", {})[1]
        prog_desc == dict_get(target_program, "description", {})[1]
        similarity == calculate_text_similarity(mc_desc, prog_desc)
    IN  IF mc_desc = {} \/ prog_desc = {}
        THEN Check(FALSE, <<0, 1>>)
        ELSE Check(RatLE(min_content_similarity, similarity), similarity)

\* a keyword is in a method when the lower-cased method is the keyword
_check_assessment_methods(micro_credential) ==
    LET methods == dict_get(micro_credential, "assessment_methods", << >>)[1]
        has_rigorous == \E i \in DOMAIN methods :
                            Lower(methods[i]) \in required_assessment_methods
    IN  IF methods = << >>
        THEN Check(FALSE, <<0, 1>>)
        ELSE Check(has_rigorous, IF has_rigorous THEN <<1, 1>> ELSE <<1, 2>>)

\* level_mapping.get(level, 0)
LevelNum(level) == IF level \in DOMAIN level_mapping THEN level_mapping[level] ELSE 0

\* .get('level', '') is None when the key is there with the value None, and None has no
\* lower()
_check_level_compatibility(micro_credential, target_program) ==
    LET mc == dict_get(micro_credential, "level", "")
        prog == dict_get(target_program, "level", "")
    IN  IF mc = None \/ prog = None
        THEN CheckRaised("AttributeError")
        ELSE LET mc_level == Lower(mc[1])
                 prog_level == Lower(prog[1])
                 compatible == LevelNum(mc_level) <= LevelNum(prog_level)
             IN  IF mc_level = "" \/ prog_level = ""
                 THEN Check(TRUE, <<1, 2>>)
                 ELSE Check(compatible, IF compatible THEN <<1, 1>> ELSE <<1, 2>>)

RECURSIVE RatSum(_)
RatSum(scores) ==
    IF scores = << >> THEN <<0, 1>> ELSE RatPlus(scores[1], RatSum(Tail(scores)))

\* sum(scores) / len(scores)
_calculate_confidence(checks) ==
    LET scores == [i \in DOMAIN checks |-> checks[i].score]
        total == RatSum(scores)
    IN  IF scores = << >> THEN <<0, 1>> ELSE <<total[1], total[2] * Len(scores)>>

\* the branches with the conditional one first
_determine_result_conditions_first(confidence, requirements_met, requirements_missing, conditions) ==
    IF RatLE(<<3, 5>>, confidence) /\ Len(requirements_missing) <= 1 /\ conditions # << >>
    THEN "conditional"
    ELSE IF RatLE(<<3, 5>>, confidence) /\ Len(requirements_missing) <= 1
    THEN "approved"
    ELSE IF RatLE(<<2, 5>>, confidence)
    THEN "review_required"
    ELSE "denied"

_determine_result(confidence, requirements_met, requirements_missing, conditions) ==
    IF RatLE(<<4, 5>>, confidence) /\ requirements_missing = << >>
    THEN "approved"
    ELSE IF RatLE(<<3, 5>>, confidence) /\ Len(requirements_missing) <= 1
    THEN IF conditions # << >> THEN "conditional" ELSE "approved"
    ELSE IF RatLE(<<2, 5>>, confidence)
    THEN "review_required"
    ELSE "denied"

\* Python's round() of the rational n / d, d > 0: to the nearest integer, a half to the
\* even one
Round(n, d) ==
    LET floor == n \div d
        twice == 2 * (n - floor * d)
    IN  IF twice < d THEN floor
        ELSE IF twice > d THEN floor + 1
        ELSE IF floor % 2 = 0 THEN floor ELSE floor + 1

\* min(round(adjusted_credits * 2) / 2, max_credits); max_credits is None when the key
\* credits is there with the value None, and min() of a float and None raises TypeError
_calculate_credits(micro_credential, target_program, confidence) ==
    LET duration == dict_get(micro_credential, "duration_hours", 0)[1]
        rounded == <<Round(duration * confidence[1] * 2, 15 * confidence[2]), 2>>
    IN  IF "credits" \notin DOMAIN target_program
        THEN [ret |-> rounded, exc |-> "none"]
        ELSE IF target_program["credits"] = None
        THEN [ret |-> <<0, 1>>, exc |-> "TypeError"]
        ELSE [ret |-> RatMin(rounded, <<target_program["credits"][1], 1>>), exc |-> "none"]

\* the names of the checks of a list, in order
Names(checks, names, keep(_)) ==
    LET RECURSIVE Pick(_)
        Pick(i) == IF i > Len(checks) THEN << >>
                   ELSE IF keep(i) THEN <<names[i]>> \o Pick(i + 1) ELSE Pick(i + 1)
    IN  Pick(1)

\* CreditAssessor.assess: the assessment, or the exception a check raised.  The lists of
\* requirements hold the names of the checks in place of their messages
assess(micro_credential, target_program) ==
    LET level_check == _check_level_compatibility(micro_credential, target_program)
        checks == <<_check_duration(micro_credential),
                    _check_outcomes(micro_credential, target_program),
                    _check_content_similarity(micro_credential, target_program),
                    _check_assessment_methods(micro_credential),
                    level_check>>
        names == <<"duration", "outcomes", "content", "assessment", "level">>
        requirements_met == Names(checks, names, LAMBDA i : checks[i].met)
        requirements_missing == Names(checks, names, LAMBDA i : ~checks[i].met /\ i # 4)
        conditions == Names(checks, names, LAMBDA i : ~checks[i].met /\ i = 4)
        confidence == _calculate_confidence(checks)
        credits == _calculate_credits(micro_credential, target_program, confidence)
    IN  IF level_check.exc # "none"
        THEN [ret |-> None, exc |-> level_check.exc]
        ELSE IF credits.exc # "none"
        THEN [ret |-> None, exc |-> credits.exc]
        ELSE [ret |-> [result |-> _determine_result(confidence, requirements_met,
                                                    requirements_missing, conditions),
                       confidence_score |-> confidence,
                       recommended_credits |-> credits.ret,
                       requirements_met |-> requirements_met,
                       requirements_missing |-> requirements_missing,
                       conditions |-> conditions],
              exc |-> "none"]

(***************************************************************************)
(* The pathway recommender (models/pathway_recommender.py).  The embedding *)
(* of a text is an input: an example comes with the embedding of its text, *)
(* a credential with the embedding of its query text.  A confidence is a   *)
(* similarity times positive factors and is carried like a similarity, as  *)
(* sign(c) * c^2, in units of 1 / ConfidenceUnit: <<n, d>> is the          *)
(* confidence whose square is n / (d * ConfidenceUnit).  A subject is      *)
(* carried as the set of its tokens.                                       *)
(***************************************************************************)
\* (10 * 20)^2: the squares of the factors 1.1 = 11/10 and 1.15 = 23/20 are whole
\* numbers of this unit
ConfidenceUnit == 40000
\* confidence = similarity
AsConfidence(similarity) == <<similarity[1] * ConfidenceUnit, similarity[2]>>
\* the metadata train() stores for an example
ExampleMetadata(example) ==
    [pathway_id |-> example.pathway_id, institution_id |-> example.institution_id,
     level |-> example.level, subject |-> example.subject]

\* PathwayRecommender.train: clear(), then add_batch of the embeddings under the pathway
\* ids
train(s, training_data) ==
    add_batch(clear(s).s,
              [i \in DOMAIN training_data |-> training_data[i].embedding],
              [i \in DOMAIN training_data |-> ExampleMetadata(training_data[i])],
              Some([i \in DOMAIN training_data |-> training_data[i].pathway_id]))

\* confidence *= num / den
Boost(confidence, num, den) == <<(confidence[1] * num * num) \div (den * den), confidence[2]>>

\* PathwayRecommender._calculate_confidence, source_level and source_subject being the
\* credential's level and subject (not None)
PathwayRecommender_calculate_confidence(similarity, source_level, source_subject, target) ==
    LET leveled == IF /\ Lower(source_level) # ""
                      /\ Lower(target.level) # ""
                      /\ Lower(source_level) = Lower(target.level)
                   THEN Boost(AsConfidence(similarity), 11, 10)
                   ELSE AsConfidence(similarity)
        subjected == IF /\ source_subject # {}
                        /\ target.subject # {}
                        /\ ~RatLE(calculate_text_similarity(source_subject, target.subject),
                                  <<7, 10>>)
                     THEN Boost(leveled, 23, 20)
                     ELSE leveled
    IN  IF SimGE(subjected, <<ConfidenceUnit, 1>>) THEN <<ConfidenceUnit, 1>> ELSE subjected

\* PathwayRecommender._generate_reasoning: the sentences of the reasoning text, source_level
\* and source_subject being the credential's level and subject (not None)
PathwayRecommender_generate_reasoning(similarity, source_level, source_subject, target) ==
    <<IF ~SimGE(<<16, 25>>, similarity) THEN "High semantic similarity"
      ELSE IF ~SimGE(<<9, 25>>, similarity) THEN "Moderate alignment"
      ELSE "Some overlap">>
    \o (IF source_level = target.level THEN <<"Matching credential level">> ELSE << >>)
    \o (IF /\ source_subject # {}
           /\ target.subject # {}
           /\ ~RatLE(calculate_text_similarity(source_subject, target.subject), <<7, 10>>)
        THEN <<"Aligned subject areas">>
        ELSE << >>)

\* the fields of the dataclass PathwayRecommendation; the model leaves out
\* target_program_id, transfer_credits and institution_name and adds rank, the position of
\* the record in the search results
PathwayRecommendation == {"pathway_id", "target_program_id", "confidence_score", "reasoning",
                          "similarity_score", "transfer_credits", "institution_name"}

\* PathwayRecommender._generate_mock_recommendations: confidence 0.85 - i * 0.1
_generate_mock_recommendations(top_k) ==
    [i \in 1..Min(top_k, 3) |->
        [pathway_id |-> "pathway_" \o ToString(i),
         reasoning |-> <<"Mock recommendation">>,
         confidence_score |-> <<(19 - 2 * i) * (19 - 2 * i) * (ConfidenceUnit \div 400), 1>>,
         similarity_score |-> <<(19 - 2 * i) * (19 - 2 * i), 400>>,
         rank |-> i]]

\* no filter at all
PassesInstitution_any(meta, target_institution_id) == TRUE

\* if target_institution_id: if metadata.get('institution_id') != target_institution_id:
\* continue.  None and the empty string are falsy: no filter
PassesInstitution(meta, target_institution_id) ==
    \/ target_institution_id = None
    \/ target_institution_id[1] = ""
    \/ meta.institution_id = target_institution_id[1]

\* a loop without the break
Accumulated_all(kept, top_k) == kept

\* if len(recommendations) >= top_k: break.  kept being the results that pass the filter,
\* the loop builds a recommendation for the first top_k of them and scans no further
Accumulated(kept, top_k) == SubSeq(kept, 1, Min(Len(kept), top_k))

\* the loop of recommend over the search results: the institution filter, one
\* recommendation for every result that passes it, and the break at top_k
Recommendations(results, credential, target_institution_id, top_k) ==
    LET kept == SelectSeq([k \in DOMAIN results |-> <<k, results[k]>>],
                          LAMBDA r : PassesInstitution(r[2][3], target_institution_id))
        taken == Accumulated(kept, top_k)
    IN  IF taken # << >> /\ (credential.level = None \/ credential.subject = None)
        THEN [ret |-> None, exc |-> "AttributeError"]
        ELSE [ret |-> [k \in DOMAIN taken |->
                          [pathway_id |-> taken[k][2][3].pathway_id,
                           confidence_score |->
                               PathwayRecommender_calculate_confidence(
                                   taken[k][2][2], credential.level[1],
                                   credential.subject[1], taken[k][2][3]),
                           reasoning |->
                               PathwayRecommender_generate_reasoning(
                                   taken[k][2][2], credential.level[1],
                                   credential.subject[1], taken[k][2][3]),
                           similarity_score |-> taken[k][2][2],
                           rank |-> taken[k][1]]],
              exc |-> "none"]

\* PathwayRecommender.recommend: the set of its possible outcomes
recommend(s, credential, target_institution_id, top_k, min_similarity) ==
    IF size(s) = 0
    THEN {Outcome(s, _generate_mock_recommendations(top_k), "none")}
    ELSE {IF o.exc # "none"
          THEN Outcome(s, None, o.exc)
          ELSE LET r == Recommendations(o.ret, credential, target_institution_id, top_k)
               IN  Outcome(s, r.ret, r.exc)
          : o \in search(s, credential.embedding, top_k * 2, Some(min_similarity))}

(***************************************************************************)
(* Text normalizer (utils/preprocessing.py clean_text).  A text is the     *)
(* sequence of its characters, over an alphabet with letters of both cases, *)
(* the space, a character the allow-list keeps (".") and characters it     *)
(* strips ("#", "@").                                                      *)
(***************************************************************************)
Chars == {"h", "t", "p", "w", "H", ".", "#", "@", " "}
\* \s and \S
IsSpace(c) == c = " "
\* [\w\s.,!?-]
IsKept(c) == c \notin {"#", "@"}
\* str.lower()
LowerChar(c) == IF c = "H" THEN "h" ELSE c

\* text[i:].startswith(word)
StartsWith(text, i, word) ==
    /\ i + Len(word) - 1 <= Len(text)
    /\ SubSeq(text, i, i + Len(word) - 1) = word

\* the last position of the run of \S that position i lies in
RECURSIVE RunEnd(_, _)
RunEnd(text, i) ==
    IF i + 1 <= Len(text) /\ ~IsSpace(text[i + 1]) THEN RunEnd(text, i + 1) ELSE i

\* re.sub(r'http\S+|www\.\S+', '', text), from position i on
RECURSIVE RemoveURLs(_, _)
RemoveURLs(text, i) ==
    IF i > Len(text)
    THEN << >>
    ELSE IF /\ StartsWith(text, i, <<"h", "t", "t", "p">>)
               \/ StartsWith(text, i, <<"w", "w", "w", ".">>)
            /\ i + 4 <= Len(text)
            /\ ~IsSpace(text[i + 4])
    THEN RemoveURLs(text, RunEnd(text, i + 4) + 1)
    ELSE <<text[i]>> \o RemoveURLs(text, i + 1)

\* re.sub(r'\S+@\S+', '', text), from position i on, i being the start of a run of \S or
\* a space: a run with an "@" that is neither its first nor its last character is removed
RECURSIVE RemoveEmails(_, _)
RemoveEmails(text, i) ==
    IF i > Len(text)
    THEN << >>
    ELSE IF IsSpace(text[i])
    THEN <<text[i]>> \o RemoveEmails(text, i + 1)
    ELSE LET e == RunEnd(text, i)
         IN  IF \E k \in (i + 1)..(e - 1) : text[k] = "@"
             THEN RemoveEmails(text, e + 1)
             ELSE SubSeq(text, i, e) \o RemoveEmails(text, e + 1)

\* ' '.join(text.split()), from position i on; glue tells whether a word came before
RECURSIVE JoinSplit(_, _, _)
JoinSplit(text, i, glue) ==
    IF i > Len(text)
    THEN << >>
    ELSE IF IsSpace(text[i])
    THEN JoinSplit(text, i + 1, glue)
    ELSE LET e == RunEnd(text, i)
         IN  (IF glue THEN <<" ">> ELSE << >>) \o SubSeq(text, i, e)
                 \o JoinSplit(text, e + 1, TRUE)

\* utils/preprocessing.py clean_text
clean_text(text) ==
    LET lowered == [i \in DOMAIN text |-> LowerChar(text[i])]
        no_urls == RemoveURLs(lowered, 1)
        no_emails == RemoveEmails(no_urls, 1)
        no_special == SelectSeq(no_emails, IsKept)
    IN  JoinSplit(no_special, 1, FALSE)

(***************************************************************************)
(* Embedding service (services/embeddings.py) and the state of the Python  *)
(* process.  process.hash is hash(text) % 2**32 of each text under the     *)
(* string-hash seed the interpreter drew at start-up, process.provider     *)
(* tells whether sentence_transformers can be imported ("real") or not     *)
(* ("absent"), process._model is EmbeddingService._model,                  *)
(* process._vector_store the module global of services/vector_store.py     *)
(* and process._recommender the module global of api/recommendations.py.   *)
(* A failure of the provider (loading the model, encoding) is an input of  *)
(* the call.                                                               *)
(***************************************************************************)
Texts == {"a", "b"}
\* the values of hash(text) % (2**32)
HashValues == 0..(D - 1)
\* a process that has just started
NewProcess ==
    [hash |-> [text \in Texts |-> IF text = "a" THEN 0 ELSE 1], provider |-> "real",
     _model |-> None, _vector_store |-> None, _recommender |-> None]

\* the embedding the sentence transformer gives a text
ModelEmbedding(text) == IF text = "a" THEN OnesVec ELSE UnitVec(1)

\* np.random.seed(seed); randn(embedding_dim) / norm: a unit vector fixed by the seed
RandomUnit(seed) == UnitVec((seed % D) + 1)

\* EmbeddingService._fallback_embeddings in a process with the string hashes hash
_fallback_embeddings(texts, hash) == [i \in DOMAIN texts |-> RandomUnit(hash[texts[i]])]

\* the property EmbeddingService.model: the lazy load, with "fallback" for an ImportError
\* and for any other exception of the load
model(p, load_fails) ==
    IF p._model # None THEN p._model[1]
    ELSE IF p.provider = "absent" \/ load_fails THEN "fallback"
    ELSE "loaded"

\* EmbeddingService.encode on a list of texts (a single str is wrapped in a list): the
\* process it leaves, the array it returns and where the array comes from
encode(p, texts, load_fails, call_fails) ==
    IF texts = << >>
    THEN [process |-> p, ret |-> << >>, source |-> "none", exc |-> "none"]
    ELSE LET m == model(p, load_fails)
             q == [p EXCEPT !._model = Some(m)]
         IN  IF m # "fallback" /\ ~call_fails
             THEN [process |-> q, ret |-> [i \in DOMAIN texts |-> ModelEmbedding(texts[i])],
                   source |-> "model", exc |-> "none"]
             ELSE [process |-> q, ret |-> _fallback_embeddings(texts, p.hash),
                   source |-> "fallback", exc |-> "none"]

(***************************************************************************)
(* The store of the process (get_vector_store) and the endpoints that use  *)
(* it.  process._vector_store is None or the VectorStore object the global *)
(* refers to: instance tells which object it is, the n-th VectorStore      *)
(* constructed in the process, and store_path is its attribute; the        *)
(* variables dimension, vectors, dtype, metadata and id_to_index are the   *)
(* other attributes of that object.  process._recommender is None or the   *)
(* recommender, given by the instance its self.vector_store refers to.     *)
(* The file at settings.vector_db_path is the variable disk.               *)
(***************************************************************************)
\* settings.vector_db_path
vector_db_path == "./vector-db"
\* the store_path arguments of get_vector_store: the default, and the path of the settings
StorePathInputs == {None, Some(vector_db_path)}
\* EmbeddingService.get_embedding_dimension: the dimension of the embeddings
get_embedding_dimension == D

\* VectorStore.__init__: an empty store, then load() when a path is given and its file
\* exists
VectorStore(d, store_path, file) ==
    IF store_path # None /\ file # None THEN load(NewStore(d), file).s ELSE NewStore(d)

\* _vector_store = VectorStore(dimension, store_path); return _vector_store
Constructed(p, s, file, d, store_path) ==
    LET n == IF p._vector_store = None THEN 1 ELSE p._vector_store[1].instance + 1
    IN  [process |-> [p EXCEPT !._vector_store =
                                   Some([instance |-> n, store_path |-> store_path])],
         s |-> VectorStore(d, store_path, file), ret |-> n]

\* get_vector_store without the test of the global
get_vector_store_always_new(p, s, file, d, store_path) ==
    Constructed(p, s, file, d, store_path)

\* get_vector_store: the process and the store it leaves, and the instance it returns
get_vector_store(p, s, file, d, store_path) ==
    IF p._vector_store = None
    THEN Constructed(p, s, file, d, store_path)
    ELSE [process |-> p, s |-> s, ret |-> p._vector_store[1].instance]

\* get_recommender: PathwayRecommender.__init__ takes the store of
\* get_vector_store(dimension=...) when the global is None
get_recommender(p, s, file) ==
    IF p._recommender = None
    THEN LET g == get_vector_store(p, s, file, get_embedding_dimension, None)
         IN  [process |-> [g.process EXCEPT !._recommender = Some(g.ret)], s |-> g.s,
              ret |-> g.ret]
    ELSE [process |-> p, s |-> s, ret |-> p._recommender[1]]

(***************************************************************************)
(* Actions.  A call is one step: it leaves the store as the code leaves it, *)
(* pre = the store before the call and last = the call with what it        *)
(* returned or raised.  The caller then takes the result (Return) before   *)
(* the next call.  scn records a batch insert into an empty store under    *)
(* distinct ids (the ids, vectors and metadata inserted) and the ids       *)
(* deleted since then.  writer is the delete() a second thread is          *)
(* executing statement by statement, with the statement it is to execute   *)
(* next; the store has no lock, so the calls of the first thread run       *)
(* between the statements.                                                 *)
(***************************************************************************)
Install(s) ==
    /\ dimension' = s.dimension
    /\ vectors' = s.vectors
    /\ dtype' = s.dtype
    /\ metadata' = s.metadata
    /\ id_to_index' = s.id_to_index

Idle == [op |-> "idle", args |-> << >>, ret |-> None, exc |-> "none"]

Call(op, args, o, cap) ==
    /\ size(o.s) <= cap
    /\ Install(o.s)
    /\ pre' = Self
    /\ last' = [op |-> op, args |-> args, ret |-> o.ret, exc |-> o.exc]
    /\ UNCHANGED <<writer, process>>

Init ==
    /\ dimension = D
    /\ vectors = << >>
    /\ dtype = "float64"
    /\ metadata = << >>
    /\ id_to_index = EmptyMap
    /\ disk = None
    /\ pre = NewStore(D)
    /\ last = Idle
    /\ scn = None
    /\ writer = None
    /\ process = NewProcess

\* the ids a caller may name: its own and the generated ones
KnownIds == BatchIds \cup {GenId(n) : n \in 0..MaxBatch}

\* the lists handed to add_batch, each of at most MaxSize elements.  Elements past the
\* shortest list are never read, so a longer list is drawn with one surplus element
Surplus(seq, x, yes) == IF yes THEN Append(seq, x) ELSE seq
AlternatingMetadata(n, first) ==
    [i \in 1..n |-> IF i % 2 = 1 THEN first
                    ELSE CHOOSE m \in MetadataInputs : m # first]
Add(inputs) ==
    /\ last.op = "idle"
    /\ \E vector \in inputs, meta \in MetadataInputs, vector_id \in IdInputs :
         \E o \in {add(Self, vector, meta, vector_id)} :
           /\ Call("add", <<vector, meta, vector_id>>, o, MaxSize)
           /\ scn' = None
           /\ UNCHANGED disk

\* add() of an embedding of element type float32
AddFloat32 ==
    /\ last.op = "idle"
    /\ \E vector \in GoodVectors \cup {OnesVec}, meta \in MetadataInputs,
          vector_id \in IdInputs :
         \E o \in {add_float32(Self, vector, meta, vector_id)} :
           /\ Call("add", <<vector, meta, vector_id>>, o, MaxSize)
           /\ scn' = None
           /\ UNCHANGED disk

\* what a batch insert leaves in scn
BatchScenario(s, vs, ms, o) ==
    IF /\ size(s) = 0
       /\ o.exc = "none"
       /\ Len(vs) = Len(o.ret) /\ Len(ms) = Len(o.ret)
       /\ \A i, j \in DOMAIN o.ret : i # j => o.ret[i] # o.ret[j]
    THEN Some([ids |-> o.ret, vectors |-> vs, metadata |-> ms, deleted |-> {}])
    ELSE None

AddBatch ==
    /\ last.op = "idle"
    /\ \E n \in 0..MaxSize :
      \E vs \in [1..n -> VectorInputs], first \in MetadataInputs,
         ids \in {None} \cup {Some(f) : f \in [1..n -> CallerIds]},
         longer \in {"none", "vectors", "metadata", "ids"} :
        LET vectors_ == Surplus(vs, UnitVec(1), longer = "vectors")
            metadata_list == Surplus(AlternatingMetadata(n, first), MetaA,
                                     longer = "metadata")
            vector_ids == IF ids = None THEN None
                          ELSE Some(Surplus(ids[1], "a", longer = "ids"))
        IN  /\ longer # "none" => n < MaxSize
            /\ longer = "ids" => ids # None
            /\ \E o \in {add_batch(Self, vectors_, metadata_list, vector_ids)} :
                 Call("add_batch", <<vectors_, metadata_list, vector_ids>>, o, MaxSize)
            /\ scn' = None
            /\ UNCHANGED disk

\* a batch insert of up to MaxBatch records into the empty store, under generated ids or
\* under distinct ids of the caller
BatchInsert ==
    /\ last.op = "idle"
    /\ size(Self) = 0
    /\ \E n \in 0..MaxBatch :
         \E vs \in [1..n -> VectorInputs], first \in MetadataInputs,
            ids \in {None} \cup {Some(f) : f \in [1..n -> BatchIds]} :
           LET metadata_list == AlternatingMetadata(n, first)
           IN  /\ ids # None => \A i, j \in 1..n : i # j => ids[1][i] # ids[1][j]
               /\ \E o \in {add_batch(Self, vs, metadata_list, ids)} :
                    /\ Call("add_batch", <<vs, metadata_list, ids>>, o, MaxBatch)
                    /\ scn' = BatchScenario(Self, vs, metadata_list, o)
               /\ UNCHANGED disk

Delete ==
    /\ last.op = "idle"
    /\ \E vector_id \in KnownIds :
      \E o \in {delete(Self, vector_id)} :
            /\ Call("delete", <<vector_id>>, o, MaxBatch)
            /\ scn' = IF scn # None /\ o.ret
                      THEN Some([scn[1] EXCEPT !.deleted = @ \cup {vector_id}])
                      ELSE scn
            /\ UNCHANGED disk

Get ==
    /\ last.op = "idle"
    /\ \E vector_id \in KnownIds :
        /\ Call("get", <<vector_id>>, Outcome(Self, get(Self, vector_id), "none"), MaxBatch)
        /\ UNCHANGED <<disk, scn>>

Clear ==
    /\ last.op = "idle"
    /\ Call("clear", << >>, clear(Self), MaxBatch)
    /\ scn' = None
    /\ UNCHANGED disk

Search ==
    /\ last.op = "idle"
    /\ \E query_vector \in QueryInputs, top_k \in TopKInputs, threshold \in ThresholdInputs :
      \E o \in search(Self, query_vector, top_k, threshold) :
        /\ Call("search", <<query_vector, top_k, threshold>>, o, MaxBatch)
        /\ UNCHANGED <<disk, scn>>

SemanticSearch ==
    /\ last.op = "idle"
    /\ \E query_embedding \in QueryInputs, top_k \in TopKInputs \ {0},
       threshold \in ThresholdInputs, filters \in FilterInputs :
      \E o \in semantic_search(Self, query_embedding, top_k, threshold, filters) :
        /\ Call("semantic_search", <<query_embedding, top_k, threshold, filters>>, o,
                MaxBatch)
        /\ UNCHANGED <<disk, scn>>

Save ==
    /\ last.op = "idle"
    /\ disk' = Some(save(Self))
    /\ pre' = Self
    /\ last' = [op |-> "save", args |-> << >>, ret |-> None, exc |-> "none"]
    /\ UNCHANGED <<dimension, vectors, dtype, metadata, id_to_index, scn, writer, process>>

\* load() of the store's own file
Load ==
    /\ last.op = "idle"
    /\ Call("load", <<disk>>, load(Self, disk), MaxBatch)
    /\ scn' = None
    /\ UNCHANGED disk

\* load(path) of a file another store has saved
LoadForeign ==
    /\ last.op = "idle"
    /\ \E file \in ForeignFiles :
        /\ Call("load", <<Some(file)>>, load(Self, Some(file)), MaxBatch)
        /\ scn' = None
        /\ UNCHANGED disk

\* load(path) of a file whose three collections differ in cardinality
LoadCorrupt ==
    /\ last.op = "idle"
    /\ \E file \in CorruptFiles :
        /\ Call("load", <<Some(file)>>, load(Self, Some(file)), MaxBatch)
        /\ scn' = None
        /\ UNCHANGED disk

\* the caller writes to an object it passed to, or got from, the call just made
MutateHeld ==
    /\ last.op \in {"add", "get", "search"}
    /\ \E cell \in SharedCells(pre, Self, last) :
         /\ Install(WriteCell(Self, cell))
         /\ pre' = Self
         /\ last' = [op |-> "mutate", args |-> <<cell>>, ret |-> None, exc |-> "none"]
    /\ UNCHANGED <<disk, scn, writer, process>>

\* delete() of a present id in a second thread, one statement at a time.
\* self.vectors = np.delete(self.vectors, idx, axis=0)
DeleteRemoveRow ==
    /\ writer = None
    /\ \E vector_id \in DOMAIN id_to_index :
         /\ vectors' = RemoveAt(vectors, id_to_index[vector_id])
         /\ writer' = Some([vector_id |-> vector_id, idx |-> id_to_index[vector_id],
                            next |-> "metadata"])
    /\ UNCHANGED <<dimension, dtype, metadata, id_to_index, disk, pre, last, scn, process>>

\* del self.metadata[idx]
DeleteRemoveMetadata ==
    /\ writer # None
    /\ writer[1].next = "metadata"
    /\ metadata' = RemoveAt(metadata, writer[1].idx)
    /\ writer' = Some([writer[1] EXCEPT !.next = "id"])
    /\ UNCHANGED <<dimension, vectors, dtype, id_to_index, disk, pre, last, scn, process>>

\* del self.id_to_index[vector_id]
DeleteRemoveId ==
    /\ writer # None
    /\ writer[1].next = "id"
    /\ id_to_index' = [vid \in DOMAIN id_to_index \ {writer[1].vector_id} |-> id_to_index[vid]]
    /\ writer' = Some([writer[1] EXCEPT !.next = "shift"])
    /\ UNCHANGED <<dimension, vectors, dtype, metadata, disk, pre, last, scn, process>>

\* the loop that moves the later positions down by one, and the return
DeleteShiftPositions ==
    /\ writer # None
    /\ writer[1].next = "shift"
    /\ id_to_index' = [vid \in DOMAIN id_to_index |->
                          IF id_to_index[vid] > writer[1].idx
                          THEN id_to_index[vid] - 1 ELSE id_to_index[vid]]
    /\ writer' = None
    /\ UNCHANGED <<dimension, vectors, dtype, metadata, disk, pre, last, scn, process>>

\* add() while no delete is in progress
AddBetweenDeletes == writer = None /\ Add(GoodVectors)

\* the credentials and programs handed to assess: a dict with key present when given
Put(d, key, given, value) == IF given THEN (key :> value) @@ d ELSE d
\* durations in hours; the request model takes any integer
DurationInputs == {0 - 15, 6, 12, 45}
\* texts, as token sets
TokenSetInputs == {{}, {"data"}, {"data", "science"}}
MethodInputs == {<< >>, <<"quiz">>, <<"Exam">>}
\* a level: null, mapped, mapped in another case, not in the level map
LevelInputs == {None, Some("certificate"), Some("Degree"), Some("unknown")}
\* a credit ceiling: null, or 3 credits
CreditInputs == {None, Some(3)}
CredentialInputs ==
    {Put([duration_hours |-> Some(duration), learning_outcomes |-> Some(outcomes),
          description |-> Some(description), assessment_methods |-> Some(methods)],
         "level", given, level) :
        duration \in DurationInputs, outcomes \in TokenSetInputs,
        description \in TokenSetInputs, methods \in MethodInputs,
        given \in BOOLEAN, level \in LevelInputs}
ProgramInputs ==
    {Put(Put([learning_outcomes |-> Some(outcomes), description |-> Some(description)],
             "level", level_given, level),
         "credits", credits_given, credits) :
        outcomes \in TokenSetInputs, description \in TokenSetInputs,
        level_given \in BOOLEAN, level \in LevelInputs,
        credits_given \in BOOLEAN, credits \in CreditInputs}

\* CreditAssessor.assess on a credential and a program
Assess ==
    /\ last.op = "idle"
    /\ \E micro_credential \in CredentialInputs, target_program \in ProgramInputs :
         \E o \in {assess(micro_credential, target_program)} :
           last' = [op |-> "assess", args |-> <<micro_credential, target_program>>,
                    ret |-> o.ret, exc |-> o.exc]
    /\ pre' = Self
    /\ UNCHANGED <<dimension, vectors, dtype, metadata, id_to_index, disk, scn, writer,
                   process>>

\* the examples train() is given: a pathway of an institution with a level, a subject
\* and the embedding of its text
SkewVec == [j \in 1..D |-> IF j = 1 THEN 2 ELSE 1]
ExampleInputs ==
    [pathway_id : {"p1", "p2"}, institution_id : {"A", "B"}, level : {"", "diploma"},
     subject : {{}}, embedding : {UnitVec(1), OnesVec}]
    \cup [pathway_id : {"p2"}, institution_id : {"A"}, level : {"diploma"},
          subject : {{"data"}}, embedding : {UnitVec(1), OnesVec}]
\* the credentials recommend() is given; the request model gives None for a level or a
\* subject left out
RecommendInputs ==
    [level : {None, Some("Diploma"), Some("")}, subject : {None, Some({"data"})},
     embedding : {OnesVec, SkewVec}]

\* PathwayRecommender.train
Train ==
    /\ last.op = "idle"
    /\ \E n \in 0..MaxSize :
         \E training_data \in [1..n -> ExampleInputs] :
           \E o \in {train(Self, training_data)} :
             Call("train", <<training_data>>, o, MaxSize)
    /\ scn' = None
    /\ UNCHANGED disk

\* the top_k of a recommendation request (ge=1, le=50)
RecommendTopK == 1..MaxSize \cup {5}

\* PathwayRecommender.recommend
Recommend ==
    /\ last.op = "idle"
    /\ \E credential \in RecommendInputs, target_institution_id \in {None, Some(""), Some("A")},
          top_k \in RecommendTopK, min_similarity \in {<<0, 1>>, <<1, 2>>} :
         \E o \in recommend(Self, credential, target_institution_id, top_k, min_similarity) :
           Call("recommend", <<credential, target_institution_id, top_k, min_similarity>>,
                o, MaxSize)
    /\ UNCHANGED <<disk, scn>>

\* the texts handed to clean_text
CleanInputs == UNION {[1..n -> Chars] : n \in 0..MaxTextLen}

\* clean_text on a text
CleanText ==
    /\ last.op = "idle"
    /\ \E text \in CleanInputs :
         last' = [op |-> "clean_text", args |-> <<text>>, ret |-> clean_text(text),
                  exc |-> "none"]
    /\ pre' = Self
    /\ UNCHANGED <<dimension, vectors, dtype, metadata, id_to_index, disk, scn, writer,
                   process>>

\* the lists of texts handed to encode
TextLists == UNION {[1..n -> Texts] : n \in 0..MaxSize}

\* EmbeddingService.encode; the load can fail when the model is not loaded yet, the
\* provider's encode when the model is or gets loaded.  A caller may encode again with the
\* result of an earlier call at hand
Encode ==
    /\ \E texts \in TextLists,
          load_fails \in IF process._model = None /\ process.provider = "real"
                         THEN BOOLEAN ELSE {FALSE} :
         \E call_fails \in IF texts # << >> /\ model(process, load_fails) = "loaded"
                            THEN BOOLEAN ELSE {FALSE} :
           \E o \in {encode(process, texts, load_fails, call_fails)} :
             /\ process' = o.process
             /\ last' = [op |-> "encode", args |-> <<texts, load_fails, call_fails>>,
                         ret |-> [embeddings |-> o.ret, source |-> o.source],
                         exc |-> o.exc]
    /\ pre' = Self
    /\ UNCHANGED <<dimension, vectors, dtype, metadata, id_to_index, disk, scn, writer>>

\* the string hashes of the texts under every seed, and under the seed of the first process
HashInputs == [Texts -> HashValues]
SameHash == {NewProcess.hash}

\* the service is started again: a new process with its own string-hash seed and an
\* empty store; the file of the store stays
Restart(hashes) ==
    /\ \E hash \in hashes, provider \in {"absent", "real"} :
         process' = [NewProcess EXCEPT !.hash = hash, !.provider = provider]
    /\ Install(NewStore(D))
    /\ pre' = NewStore(D)
    /\ scn' = None
    /\ writer' = None
    /\ UNCHANGED <<disk, last>>

\* a call of get_vector_store
GetVectorStore ==
    /\ last.op = "idle"
    /\ \E d \in {D, D + 1}, store_path \in StorePathInputs :
         \E g \in {get_vector_store(process, Self, disk, d, store_path)} :
           /\ Install(g.s)
           /\ process' = g.process
           /\ last' = [op |-> "get_vector_store", args |-> <<d, store_path>>,
                       ret |-> Some(g.ret), exc |-> "none"]
    /\ pre' = Self
    /\ scn' = None
    /\ UNCHANGED <<disk, writer>>

\* the texts of the documents of an index request
DocumentTexts == {texts \in TextLists : \A i \in DOMAIN texts : texts[i] = "a"}

\* the index endpoint (index_documents): the store of get_vector_store, the embeddings of
\* the documents' texts added without ids, then save(), which writes when the store has a
\* store_path; an exception leaves the handler before save()
IndexDocuments ==
    /\ last.op = "idle"
    /\ \E texts \in DocumentTexts, first \in {MetaA} :
         LET g == get_vector_store(process, Self, disk, get_embedding_dimension,
                                   Some(vector_db_path))
             e == encode(g.process, texts, FALSE, FALSE)
             o == add_batch(g.s, e.ret, AlternatingMetadata(Len(texts), first), None)
         IN  /\ size(o.s) <= MaxSize
             /\ Install(o.s)
             /\ process' = e.process
             /\ disk' = IF o.exc = "none" /\ e.process._vector_store[1].store_path # None
                        THEN Some(save(o.s)) ELSE disk
             /\ last' = [op |-> "index_documents", args |-> <<texts, first>>,
                         ret |-> o.ret, exc |-> o.exc]
    /\ pre' = Self
    /\ scn' = None
    /\ UNCHANGED writer

\* the examples of a training request
TrainingInputs ==
    {e \in ExampleInputs : e.institution_id = "A" /\ e.level = "" /\ e.embedding = OnesVec}

\* the train endpoint (train_model): get_recommender(), then train on its store
TrainModel ==
    /\ last.op = "idle"
    /\ \E n \in 0..MaxSize :
         \E training_data \in [1..n -> TrainingInputs] :
           LET r == get_recommender(process, Self, disk)
               o == train(r.s, training_data)
           IN  /\ size(o.s) <= MaxSize
               /\ Install(o.s)
               /\ process' = r.process
               /\ last' = [op |-> "train_model", args |-> <<training_data>>,
                           ret |-> o.ret, exc |-> o.exc]
    /\ pre' = Self
    /\ scn' = None
    /\ UNCHANGED <<disk, writer>>

\* the caller takes the result of the last call
Return ==
    /\ last.op # "idle"
    /\ last' = Idle
    /\ pre' = Self
    /\ UNCHANGED <<dimension, vectors, dtype, metadata, id_to_index, disk, scn, writer,
                   process>>

\* the store's operations, a one-component vector among the inputs of add
Next == Add(VectorInputs \cup {ShortVec}) \/ AddBatch \/ Delete \/ Get \/ Clear \/ Return

Spec == Init /\ [][Next]_vars

\* the store's operations on vectors of D and of D + 1 components
NextAdd == Add(VectorInputs) \/ AddBatch \/ Delete \/ Get \/ Clear \/ Return

SpecAdd == Init /\ [][NextAdd]_vars

\* searches over a store filled by add
NextSearch == Add(VectorInputs) \/ Delete \/ Clear \/ Search \/ SemanticSearch \/ Return

SpecSearch == Init /\ [][NextSearch]_vars

\* persistence: the file of the store and a file of another store
NextLoad ==
    Add(VectorInputs) \/ Clear \/ Save \/ Load \/ LoadForeign \/ LoadCorrupt \/ Return

SpecLoad == Init /\ [][NextLoad]_vars

\* save and load of a store filled by add, with float64 and with float32 vectors
NextRoundTrip == Add(GoodVectors) \/ AddFloat32 \/ Delete \/ Save \/ Load \/ Return

SpecRoundTrip == Init /\ [][NextRoundTrip]_vars

\* callers that write to the objects they passed to add or got from get and search
NextAlias == Add(GoodVectors) \/ Get \/ Search \/ MutateHeld \/ Return

SpecAlias == Init /\ [][NextAlias]_vars

\* a thread that adds and searches, and a thread that deletes
NextThreads ==
    \/ AddBetweenDeletes
    \/ DeleteRemoveRow \/ DeleteRemoveMetadata \/ DeleteRemoveId \/ DeleteShiftPositions
    \/ Search \/ Return

SpecThreads == Init /\ [][NextThreads]_vars

\* assessments of credentials against programs
NextAssess == Assess \/ Return

SpecAssess == Init /\ [][NextAssess]_vars

\* recommendations over a store filled by train
NextRecommend == Train \/ Recommend \/ Return

SpecRecommend == Init /\ [][NextRecommend]_vars

\* normalization of texts
NextClean == CleanText \/ Return

SpecClean == Init /\ [][NextClean]_vars

\* embeddings of texts, in one process and after a restart
NextEmbed == Encode \/ Restart(HashInputs) \/ Return

SpecEmbed == Init /\ [][NextEmbed]_vars

\* the store of the process, used by the index endpoint and by the recommender
NextShared ==
    GetVectorStore \/ IndexDocuments \/ TrainModel \/ Restart(SameHash) \/ Return

SpecShared == Init /\ [][NextShared]_vars

\* a batch insert into the empty store, then deletes and gets
NextBatch == BatchInsert \/ Delete \/ Get \/ Clear \/ Return

SpecBatch == Init /\ [][NextBatch]_vars

(***************************************************************************)
(* Properties.                                                             *)
(***************************************************************************)

\* C1: after any sequence of add, add_batch, delete and clear the vector array, the
\* metadata list and the id-to-position mapping have the same cardinality, and the
\* mapping is a bijection from the stored ids onto the positions 0..size-1.
C1_MappingBijection ==
    /\ Len(vectors) = Len(metadata)
    /\ Cardinality(DOMAIN id_to_index) = Len(metadata)
    /\ Range(id_to_index) = 0..(Len(metadata) - 1)

\* a record that was not the last one has just been deleted and records remain
C1_Witness ==
    /\ last.op = "delete"
    /\ last.ret
    /\ pre.id_to_index[last.args[1]] < size(pre) - 1
    /\ size(Self) >= 1

\* C2: add() without an id returns an id that was not present before the call, the size
\* grows by exactly one, and no existing record's vector or metadata is changed.
C2_AddWithoutIdAppends ==
    (last.op = "add" /\ last.args[3] = None /\ last.exc = "none") =>
        /\ last.ret \notin DOMAIN pre.id_to_index
        /\ size(Self) = size(pre) + 1
        /\ \A id \in DOMAIN pre.id_to_index : get(Self, id) = get(pre, id)

\* C3: add() with an id that is already present replaces that record in place: the size
\* and the positions are unchanged, get(id) returns the new vector and metadata, and
\* every other record is unchanged.
C3_AddExistingReplaces ==
    (/\ last.op = "add"
     /\ last.args[3] # None
     /\ last.args[3][1] \in DOMAIN pre.id_to_index
     /\ last.exc = "none") =>
        /\ size(Self) = size(pre)
        /\ id_to_index = pre.id_to_index
        /\ get(Self, last.args[3][1]) = <<last.args[1], last.args[2]>>
        /\ \A id \in DOMAIN pre.id_to_index \ {last.args[3][1]} :
               get(Self, id) = get(pre, id)

\* the ids at the even places of the batch: every other one
EveryOther(ids) == {ids[i] : i \in {j \in DOMAIN ids : j % 2 = 0}}

\* C4: for N records batch-inserted under distinct ids into an empty store, after any
\* deletes of them: the size is N less the number deleted, get on a deleted id is absent,
\* get on a retained id is the vector and metadata inserted under it, and with every
\* other one deleted the size is ceil(N/2); a delete of a present id returns true, a
\* delete of an absent id returns false and leaves the store unchanged.
C4_DeleteConsistency ==
    /\ scn # None =>
        LET b == scn[1]
            N == Len(b.ids)
        IN  /\ size(Self) = N - Cardinality(b.deleted)
            /\ \A i \in 1..N :
                  get(Self, b.ids[i]) =
                      IF b.ids[i] \in b.deleted THEN None
                      ELSE <<b.vectors[i], b.metadata[i]>>
            /\ b.deleted = EveryOther(b.ids) => size(Self) = (N + 1) \div 2
    /\ last.op = "delete" =>
        IF last.args[1] \in DOMAIN pre.id_to_index
        THEN last.ret
        ELSE ~last.ret /\ Self = pre

\* three records were inserted and the second has just been deleted
C4_Witness ==
    /\ scn # None
    /\ Len(scn[1].ids) = 3
    /\ scn[1].deleted = EveryOther(scn[1].ids)
    /\ last.op = "delete"
    /\ last.ret
    /\ size(Self) = 2

\* C5: search returns at most top_k records, and none when top_k = 0.
C5_TopKBound ==
    (last.op = "search" /\ last.exc = "none") =>
        /\ Len(last.ret) <= last.args[2]
        /\ last.args[2] = 0 => last.ret = << >>

\* C6: the records search returns are ordered by similarity descending, and of two with
\* equal similarity the one inserted earlier (at the lower position) comes first.
C6_OrderedWithStableTies ==
    (last.op = "search" /\ last.exc = "none") =>
        \A i, j \in DOMAIN last.ret :
            i < j =>
                /\ SimGE(last.ret[i][2], last.ret[j][2])
                /\ SimGE(last.ret[j][2], last.ret[i][2]) =>
                       pre.id_to_index[last.ret[i][1]] < pre.id_to_index[last.ret[j][1]]

\* a threshold is raised: from none to any, or from one to a greater or equal one
Raises(lo, hi) == hi # None /\ (lo = None \/ SimGE(ThresholdKey(hi[1]), ThresholdKey(lo[1])))

\* C7: with a threshold every returned record has similarity >= threshold, and for the
\* same store, query and top_k a raised threshold never returns more records.
C7_ThresholdMonotone ==
    (last.op = "search" /\ last.exc = "none") =>
        /\ last.args[3] # None =>
              \A k \in DOMAIN last.ret :
                  SimGE(last.ret[k][2], ThresholdKey(last.args[3][1]))
        /\ \A hi \in ThresholdInputs :
              Raises(last.args[3], hi) =>
                  \A o \in search(Self, last.args[1], last.args[2], hi) :
                      o.exc = "none" /\ Len(o.ret) <= Len(last.ret)

\* a search with threshold 0 returned two records, and the raised threshold 3/4 returns
\* fewer
C7_Witness ==
    /\ last.op = "search"
    /\ last.exc = "none"
    /\ last.args[3] = Some(<<0, 1>>)
    /\ Len(last.ret) = 2
    /\ \E o \in search(Self, last.args[1], last.args[2], Some(<<3, 4>>)) :
           Len(o.ret) < 2

\* the stored records that pass both the threshold and the filter
PassingBoth(s, query, threshold, filters) ==
    {i \in 1..Len(s.vectors) :
        /\ PassesThreshold(cosine(s.vectors[i], query), threshold)
        /\ MatchesFilters(s.metadata[i], filters)}

\* C8: a search with a metadata filter returns min(top_k, m) records, m the number of
\* stored records that pass both the threshold and the filter, and every returned record
\* matches the filter.
C8_FilterBeforeTopK ==
    (/\ last.op = "semantic_search"
     /\ last.exc = "none"
     /\ last.args[4] # None) =>
        /\ Len(last.ret) =
              Min(last.args[2],
                  Cardinality(PassingBoth(pre, last.args[1], last.args[3], last.args[4][1])))
        /\ \A k \in DOMAIN last.ret : MatchesFilters(last.ret[k][3], last.args[4][1])

\* C9: add() with a vector, and search() with a query, whose length differs from the
\* dimension fail with an error in every store state, and leave the store unchanged.
C9_DimensionMismatchFails ==
    /\ (last.op = "add" /\ Len(last.args[1]) # pre.dimension) =>
           last.exc # "none" /\ Self = pre
    /\ (last.op = "search" /\ Len(last.args[1]) # pre.dimension) =>
           last.exc # "none" /\ Self = pre

\* C10: the dimension is the D given at construction and every stored vector has exactly
\* D components; clear() leaves size 0 with the dimension unchanged.
C10_DimensionInvariant ==
    /\ dimension = D
    /\ \A i \in DOMAIN vectors : Len(vectors[i]) = D
    /\ last.op = "clear" => size(Self) = 0 /\ dimension = pre.dimension

\* C11: add_batch with numbers of vectors, of metadata entries and (when given) of ids
\* that are not all equal fails with an error and adds no record.
C11_ArityMismatchFails ==
    (/\ last.op = "add_batch"
     /\ \/ Len(last.args[1]) # Len(last.args[2])
        \/ last.args[3] # None /\ Len(last.args[3][1]) # Len(last.args[1])) =>
        last.exc # "none" /\ Self = pre

\* what a caller can observe of a store: its size, get of every id, and the possible
\* results of every search
Observations(s) ==
    [size |-> size(s),
     gets |-> [id \in KnownIds |-> get(s, id)],
     searches |-> [q \in QueryInputs \ {LongVec}, k \in TopKInputs, t \in ThresholdInputs |->
                      {<<o.ret, o.exc>> : o \in search(s, q, k, t)}]]

\* C12: load() of the file save() writes for a store yields an observationally identical
\* store: the same size, the same get(id) for every id, and the same search results for
\* every query, top_k and threshold.
C12_SaveLoadRoundTrip ==
    (last.op = "load" /\ last.args[1] = Some(save(pre))) =>
        Observations(Self) = Observations(pre)

\* C13: load() of a file whose vector list, metadata list and id mapping do not all have
\* the same cardinality fails with an error and does not install the data.
C13_CorruptStoreFails ==
    (/\ last.op = "load"
     /\ last.args[1] # None
     /\ \/ Len(last.args[1][1].vectors) # Len(last.args[1][1].metadata)
        \/ Cardinality(DOMAIN last.args[1][1].id_to_index) # Len(last.args[1][1].metadata)) =>
        last.exc # "none" /\ Self = pre

\* C14: values handed to or returned from the store are copies: when the caller writes to
\* a vector or metadata object it got from get() or search(), or passed to add(), what
\* get() returns for every id is unchanged.
C14_CallersHoldCopies ==
    last.op = "mutate" =>
        \A id \in DOMAIN pre.id_to_index : get(Self, id) = get(pre, id)

\* the three collections of a store agree: equal cardinalities, and the mapping is one to
\* one from the ids onto the positions
InSync(s) ==
    /\ Len(s.vectors) = Len(s.metadata)
    /\ Cardinality(DOMAIN s.id_to_index) = Len(s.metadata)
    /\ Range(s.id_to_index) = 0..(Len(s.metadata) - 1)

\* C15: under any interleaving of a mutation with a concurrent search, the store the
\* reader works on has its vector array, metadata list and id mapping in sync.
C15_ReadersSeeStoreInSync ==
    last.op = "search" => InSync(pre)

\* C16: the category is the first matching branch of the priority list: approved if
\* confidence >= 0.8 and nothing is missing; else, if confidence >= 0.6 and at most one
\* requirement is missing, conditional when a condition exists and approved when none
\* does; else review_required if confidence >= 0.4; else denied.
C16_FirstMatchingBranch ==
    (last.op = "assess" /\ last.exc = "none") =>
        LET confidence == last.ret.confidence_score
            missing == Len(last.ret.requirements_missing)
        IN  last.ret.result =
                IF RatLE(<<8, 10>>, confidence) /\ missing = 0 THEN "approved"
                ELSE IF RatLE(<<6, 10>>, confidence) /\ missing <= 1
                THEN (IF last.ret.conditions # << >> THEN "conditional" ELSE "approved")
                ELSE IF RatLE(<<4, 10>>, confidence) THEN "review_required"
                ELSE "denied"

\* an assessment with a condition was approved by the first branch
C16_Witness ==
    /\ last.op = "assess"
    /\ last.exc = "none"
    /\ last.ret.result = "approved"
    /\ last.ret.conditions # << >>
    /\ RatLE(<<8, 10>>, last.ret.confidence_score)

\* the five checks of a credential and a program
Checks(micro_credential, target_program) ==
    <<_check_duration(micro_credential),
      _check_outcomes(micro_credential, target_program),
      _check_content_similarity(micro_credential, target_program),
      _check_assessment_methods(micro_credential),
      _check_level_compatibility(micro_credential, target_program)>>

InUnitInterval(x) == RatLE(<<0, 1>>, x) /\ RatLE(x, <<1, 1>>)

\* the dicts the request models of the API give assess: every optional key is there,
\* with the value None when the request left it out
FromRequest(micro_credential, target_program) ==
    /\ "level" \in DOMAIN micro_credential
    /\ {"level", "credits"} \subseteq DOMAIN target_program

\* C17: for a credential and a program the API accepts, the confidence assess returns is
\* the arithmetic mean of the five checks' scores, every check score is in [0,1], and so
\* is the confidence.
C17_ConfidenceIsMeanInUnitInterval ==
    (last.op = "assess" /\ last.exc = "none" /\ FromRequest(last.args[1], last.args[2])) =>
        LET checks == Checks(last.args[1], last.args[2])
            total == RatSum([i \in 1..5 |-> checks[i].score])
        IN  /\ RatEQ(last.ret.confidence_score, <<total[1], 5 * total[2]>>)
            /\ \A i \in 1..5 : InUnitInterval(checks[i].score)
            /\ InUnitInterval(last.ret.confidence_score)

\* the level of a dict is mapped: given, not null, and in the level map
LevelMapped(d) ==
    /\ "level" \in DOMAIN d
    /\ d["level"] # None
    /\ Lower(d["level"][1]) \in DOMAIN level_mapping

\* C18: with both levels mapped the level check is met iff the credential's ordinal level
\* is <= the program's; with a level absent, null or not in the map the check is met with
\* score 0.5 and assess raises nothing for it.
C18_LevelCompatibility ==
    last.op = "assess" =>
        LET check == _check_level_compatibility(last.args[1], last.args[2])
        IN  IF LevelMapped(last.args[1]) /\ LevelMapped(last.args[2])
            THEN /\ check.exc = "none"
                 /\ check.met <=> level_mapping[Lower(last.args[1]["level"][1])]
                                     <= level_mapping[Lower(last.args[2]["level"][1])]
            ELSE /\ check.exc = "none"
                 /\ check.met
                 /\ RatEQ(check.score, <<1, 2>>)
                 /\ last.exc # "AttributeError"

\* the program declares a credit ceiling: the key is given and not null
HasCeiling(d) == "credits" \in DOMAIN d /\ d["credits"] # None

\* C19: the recommended credits are non-negative, are round(duration / 15 * confidence * 2)
\* / 2 when the program declares no ceiling (absent or null, without a failure), and
\* never exceed a declared ceiling.
C19_RecommendedCredits ==
    last.op = "assess" =>
        /\ ~HasCeiling(last.args[2]) => last.exc # "TypeError"
        /\ last.exc = "none" =>
              LET credits == last.ret.recommended_credits
                  confidence == last.ret.confidence_score
                  duration == last.args[1]["duration_hours"][1]
              IN  /\ RatLE(<<0, 1>>, credits)
                  /\ ~HasCeiling(last.args[2]) =>
                        RatEQ(credits,
                              <<Round(duration * confidence[1] * 2, 15 * confidence[2]), 2>>)
                  /\ HasCeiling(last.args[2]) =>
                        RatLE(credits, <<last.args[2]["credits"][1], 1>>)

Flagged(recommendation) ==
    \E f \in DOMAIN recommendation \ (PathwayRecommendation \cup {"rank"}) :
        recommendation[f] = TRUE

\* C22: recommend against an empty index does not fail and returns min(top_k, 3)
\* placeholder recommendations with the confidences 0.85, 0.75, 0.65 in that order, each
\* flagged as non-authoritative.
C22_PlaceholdersFlagged ==
    (last.op = "recommend" /\ size(pre) = 0) =>
        /\ last.exc = "none"
        /\ Len(last.ret) = Min(last.args[3], 3)
        /\ \A k \in 1..Len(last.ret) :
               /\ last.ret[k].confidence_score[1] * 10000
                      = (95 - 10 * k) * (95 - 10 * k) * ConfidenceUnit
                            * last.ret[k].confidence_score[2]
               /\ Flagged(last.ret[k])

\* C23: train is a full-corpus replace: whatever the index held before, afterwards it
\* holds exactly one record per example (size() = number of examples), every record being
\* built from an example of the call; with zero examples it completes and leaves an empty
\* index.
C23_TrainReplacesCorpus ==
    last.op = "train" =>
        LET training_data == last.args[1]
        IN  /\ last.exc = "none"
            /\ size(Self) = Len(training_data)
            /\ \A id \in DOMAIN id_to_index :
                   \E i \in 1..Len(training_data) :
                       /\ training_data[i].pathway_id = id
                       /\ metadata[id_to_index[id] + 1] = ExampleMetadata(training_data[i])
                       /\ vectors[id_to_index[id] + 1] = training_data[i].embedding

\* C24: when a real embedding provider is configured and an embed call on it fails, encode
\* fails; the fallback embedding is used only when no real provider is configured.
C24_ProviderFailureFails ==
    (last.op = "encode" /\ process.provider = "real") =>
        /\ last.args[3] => last.exc # "none"
        /\ last.ret.source # "fallback"

\* C25: the fallback embedding is a function of the text alone: two calls with the same
\* texts return the same vectors, also when the service was started again in between.
C25_FallbackDeterministic ==
    [][(/\ last.op = "encode"
        /\ last'.op = "encode"
        /\ last'.args[1] = last.args[1]
        /\ last.ret.source = "fallback"
        /\ last'.ret.source = "fallback") =>
           last'.ret.embeddings = last.ret.embeddings]_vars

\* C26: clean_text is idempotent: clean_text(clean_text(t)) = clean_text(t) for every text t.
C26_CleanTextIdempotent ==
    last.op = "clean_text" => clean_text(last.ret) = last.ret

\* an optional value is present: neither missing (None) nor empty
Present(opt, empty) == opt # None /\ opt[1] # empty

\* C27: on a non-empty index recommend returns, and the confidence of each recommendation
\* is min(1.0, similarity, times 1.10 if the levels of the credential and of the candidate
\* are both present and equal, times 1.15 if both subjects are present and their lexical
\* similarity exceeds 0.7); an absent level or subject (missing or null) gives no boost.
C27_ConfidenceFormula ==
    (last.op = "recommend" /\ size(pre) > 0) =>
        /\ last.exc = "none"
        /\ \A k \in 1..Len(last.ret) :
               LET credential == last.args[1]
                   target == pre.metadata[pre.id_to_index[last.ret[k].pathway_id] + 1]
                   similarity == last.ret[k].similarity_score
                   levels == /\ Present(credential.level, "")
                             /\ target.level # ""
                             /\ Lower(credential.level[1]) = Lower(target.level)
                   subjects == /\ Present(credential.subject, {})
                               /\ target.subject # {}
                               /\ ~RatLE(calculate_text_similarity(credential.subject[1],
                                                                   target.subject),
                                         <<7, 10>>)
                   factor == (IF levels THEN 121 ELSE 100) * (IF subjects THEN 529 ELSE 400)
                   expected == IF similarity[1] * factor >= ConfidenceUnit * similarity[2]
                               THEN <<ConfidenceUnit, 1>>
                               ELSE <<similarity[1] * factor, similarity[2]>>
               IN  RatEQ(last.ret[k].confidence_score, expected)

\* C28: on a non-empty index recommend returns at most top_k recommendations: the first
\* top_k candidates, in search order, of search(query, 2 * top_k, min_similarity) that
\* pass the institution filter.
C28_FirstTopKInSearchOrder ==
    (last.op = "recommend" /\ last.exc = "none" /\ size(pre) > 0) =>
        LET credential == last.args[1]
            target_institution_id == last.args[2]
            top_k == last.args[3]
            min_similarity == last.args[4]
        IN  /\ Len(last.ret) <= top_k
            /\ \E o \in search(pre, credential.embedding, 2 * top_k, Some(min_similarity)) :
                   LET passing ==
                           SelectSeq(o.ret,
                                     LAMBDA r : \/ ~Present(target_institution_id, "")
                                                \/ r[3].institution_id
                                                       = target_institution_id[1])
                   IN  /\ o.exc = "none"
                       /\ Len(last.ret) = Min(Len(passing), top_k)
                       /\ \A k \in 1..Len(last.ret) :
                              /\ last.ret[k].pathway_id = passing[k][3].pathway_id
                              /\ last.ret[k].similarity_score = passing[k][2]

\* one recommendation was asked for and returned while the search had two candidates
C28_Witness ==
    /\ last.op = "recommend"
    /\ last.exc = "none"
    /\ size(pre) = 2
    /\ last.args[2] = None
    /\ last.args[3] = 1
    /\ last.args[4] = <<0, 1>>
    /\ Len(last.ret) = 1

\* C29: whenever assess returns approved, no requirement is missing.
C29_ApprovedNothingMissing ==
    (last.op = "assess" /\ last.exc = "none" /\ last.ret.result = "approved") =>
        last.ret.requirements_missing = << >>

\* C30: get_vector_store is first-call-wins.  Once the process has a store, every call of
\* get_vector_store returns that instance and leaves the global, the dimension and the
\* store_path as they are whatever the arguments; the recommender holds that same
\* instance; and after train() every record of the store is an example of the training
\* data, none is a record added through the index endpoint.
C30_FirstCallWins ==
    [][/\ (process._vector_store # None /\ last.op = "idle"
            /\ last'.op \in {"get_vector_store", "index_documents", "train_model"}) =>
               /\ process'._vector_store = process._vector_store
               /\ dimension' = dimension
               /\ last'.op = "get_vector_store" =>
                      /\ last'.ret = Some(process._vector_store[1].instance)
                      /\ <<vectors', metadata', id_to_index'>> =
                             <<vectors, metadata, id_to_index>>
       /\ process'._recommender # None =>
               /\ process'._vector_store # None
               /\ process'._recommender[1] = process'._vector_store[1].instance
       /\ (last.op = "idle" /\ last'.op = "train_model") =>
               /\ DOMAIN id_to_index' \subseteq
                      {last'.args[1][i].pathway_id : i \in DOMAIN last'.args[1]}
               /\ \A n \in 0..MaxSize : GenId(n) \notin DOMAIN id_to_index'
               /\ Len(metadata') <= Len(last'.args[1])
      ]_vars

\* the recommender has trained on a store that the index endpoint created with a
\* store_path and filled, and the store holds the examples only
C30_Witness ==
    /\ last.op = "train_model"
    /\ last.exc = "none"
    /\ GenId(0) \in DOMAIN pre.id_to_index
    /\ process._vector_store # None
    /\ process._vector_store[1].store_path = Some(vector_db_path)
    /\ process._recommender = Some(process._vector_store[1].instance)
    /\ metadata # << >>

====
